---- MODULE Spec2Model ----
\* GabrilBot: the per-day user-collection pipeline of bot/utils/telegram_parser.py
\* (find_date_boundaries, process_dialog_enhanced, get_users_from_chats_enhanced)
\* over the SQLite users store of bot/utils/database.py (DatabaseManager).
\*
\* One asyncio event loop runs the calls of get_users_from_chats_enhanced; a call
\* is suspended only at its awaits of remote calls, so every action below is the
\* code between two such awaits.
EXTENDS Integers, Sequences, FiniteSets, Bags, TLC

\* ---------------------------------------------------------------- bounds
\* Seconds the wall clock may advance during a behaviour.
MaxTime == 1
\* Rate-limit signals (FloodWaitError) the remote raises in the rate-limit scenario.
MaxFlood == 3
\* Other exceptions the remote raises inside the harvests of one scenario.
MaxFaults == 1
\* Direct calls of add_user / insert_users (manual add, replace_database).
MaxDirect == 2
\* Updates that reach the collection handlers of the bot.
MaxUpdates == 3
\* Accounts configured in parser_cfg.accounts when the handlers run.
MaxAccounts == 2
\* The last calendar day a date-range message can name.
MaxDay == 32
\* Rows in the users_data of one direct call of insert_users.
MaxRows == 3
\* Calls of the flat-file get_users_from_chats_enhanced of src/bot.py.
MaxLegacyRuns == 2
\* Units of work that take a connection from DatabaseManager.
MaxUnits == 6

\* ------------------------------------------------------ program constants
\* asyncio.Semaphore(3)
SemaphoreLimit == 3
\* participants_count > 10
MinParticipants == 10
\* iter_messages(..., limit=50) of both probes
ProbeLimit == 50
\* insert_users(users_data, batch_size=1000)
BatchSize == 1000

\* if days_count > 30 (process_date_range)
MaxRangeDays == 30

\* wait_for_unlock(filepath, max_retries=10) of src/bot.py
MaxRetries == 10

\* DatabaseManager._pool_size
PoolSize == 5

\* SQL NULL / Python None of a text column, and of the integer user_id.
NULL == "NULL"
NoId == 0

\* Wait durations a FloodWaitError can carry (e.seconds).
Durations == {1, 2}

\* ------------------------------------------------------------- the remote
\* A message: id, calendar day of message.date, sender (NoId: message.sender is
\* None) and whether building its row raises (a malformed sender entity).
Msg(id, day, sender, bad) == [id |-> id, day |-> day, sender |-> sender, bad |-> bad]

\* A dialog: participants_count is hasCount (the entity has the attribute) and
\* count (-1: the attribute is None).
Dialog(id, title, is_group, archived, hasCount, count) ==
    [id |-> id, title |-> title, is_group |-> is_group, archived |-> archived,
     hasCount |-> hasCount, count |-> count]

\* An account of parser_cfg.accounts.
Account(has_phone, api_id, api_hash) ==
    [has_phone |-> has_phone, phone_number |-> "+1", api_id |-> api_id, api_hash |-> api_hash]

GoodAccount == Account(TRUE, TRUE, TRUE)

Call(account, date) == [account |-> account, date |-> date]

\* A row of the users table (the columns the pipeline decides on).
Row(user_id, last_activity, collected_at, source_group, group_id) ==
    [user_id |-> user_id, last_activity |-> last_activity, collected_at |-> collected_at,
     source_group |-> source_group, group_id |-> group_id]

\* collected_at is TEXT: strftime("%Y-%m-%d %H:%M:%S") of the harvest writes the
\* second, datetime.isoformat() of add_user writes another format; NULL is no text.
SecText(t) == [fmt |-> "sec", t |-> t]
IsoText(t) == [fmt |-> "iso", t |-> t]
NullText == [fmt |-> "null", t |-> 0]

\* The scenarios: the remote account's dialogs and their message histories, the
\* calls of get_users_from_chats_enhanced the handlers make, the rows already
\* stored, and how many faults the environment injects; requesters are the chat
\* ids that send updates to the bot's handlers, updates is how many they send and
\* accounts is parser_cfg.accounts (none of them unless the handlers run); blocked
\* is the dialog whose locator probes the remote rate-limits without end (0: none).
Scenario(dialogs, msgs, calls, store, floods, faults, direct) ==
    [dialogs |-> dialogs, msgs |-> msgs, calls |-> calls, store |-> store,
     floods |-> floods, faults |-> faults, direct |-> direct, requesters |-> {},
     accounts |-> << >>, updates |-> 0, blocked |-> 0]

\* Four qualifying groups with one sender each, a private chat, an archived group
\* and a small group: the fan-out.
FanoutScenario ==
    Scenario(
        << Dialog(1, "A", TRUE, FALSE, TRUE, 50), Dialog(2, "B", TRUE, FALSE, FALSE, 0),
           Dialog(3, "C", TRUE, FALSE, TRUE, 11), Dialog(4, "D", TRUE, FALSE, TRUE, 200),
           Dialog(5, "E", FALSE, FALSE, FALSE, 0), Dialog(6, "F", TRUE, TRUE, TRUE, 99),
           Dialog(7, "G", TRUE, FALSE, TRUE, 10) >>,
        [d \in 1..7 |-> << Msg(1, 1, d, FALSE) >>],
        << Call(GoodAccount, 1) >>, {}, 0, MaxFaults, 0)

\* G1 with three senders on day 1, G2 with one sender who is also in G1; the two
\* groups carry the same title or different titles.
TwoGroupScenario(title2, store) ==
    Scenario(
        << Dialog(1, "A", TRUE, FALSE, TRUE, 50), Dialog(2, title2, TRUE, FALSE, TRUE, 50) >>,
        [d \in 1..2 |-> IF d = 1
                        THEN << Msg(1, 1, 1, FALSE), Msg(2, 1, 2, FALSE), Msg(3, 1, 3, FALSE) >>
                        ELSE << Msg(1, 1, 1, FALSE) >>],
        << Call(GoodAccount, 1) >>, store, 0, 0, 0)

\* One group whose sender 1 posts twice on day 1 (the newer message is malformed)
\* and sender 2 once, between messages of day 0 and day 2; collected twice.
RerunScenario ==
    Scenario(
        << Dialog(1, "A", TRUE, FALSE, TRUE, 50) >>,
        [d \in 1..1 |-> << Msg(1, 0, 9, FALSE), Msg(2, 1, 1, FALSE), Msg(3, 1, 1, TRUE),
                           Msg(4, 1, 2, FALSE), Msg(5, 2, 3, FALSE) >>],
        << Call(GoodAccount, 1), Call(GoodAccount, 1) >>, {}, 0, MaxFaults, 0)

\* One group, rate-limited probes; date 1 has messages, date 3 has none.
LocateScenario(date) ==
    Scenario(
        << Dialog(1, "A", TRUE, FALSE, TRUE, 50) >>,
        [d \in 1..1 |-> << Msg(1, 0, 9, FALSE), Msg(2, 1, 1, FALSE), Msg(3, 1, 2, FALSE),
                           Msg(4, 2, 3, FALSE) >>],
        << Call(GoodAccount, date) >>, {}, MaxFlood, MaxFaults, 0)

\* Accounts of every shape: with and without phone_number, api_id, api_hash.
AccountScenario(account) ==
    Scenario(
        << Dialog(1, "A", TRUE, FALSE, TRUE, 50) >>,
        [d \in 1..1 |-> << Msg(1, 1, 1, FALSE) >>],
        << Call(account, 1) >>, {}, 0, 0, 0)

\* A group whose entity has participants_count = None (Telethon's Channel
\* declares the attribute as optional), beside an ordinary group.
NullCountScenario ==
    Scenario(
        << Dialog(1, "A", TRUE, FALSE, TRUE, -1), Dialog(2, "B", TRUE, FALSE, TRUE, 50) >>,
        [d \in 1..2 |-> << Msg(1, 1, d, FALSE) >>],
        << Call(GoodAccount, 1) >>, {}, 0, 0, 0)

\* No remote at all: only direct calls of the store's add_user / insert_users.
StoreScenario ==
    Scenario(<< >>, << >>, << >>, {}, 0, 0, MaxDirect)

\* The handlers run: every update's handler calls get_users_from_chats_enhanced
\* once per configured account, so the calls are the accounts, once per update.
HandlerScenario(dialogs, msgs, accounts, requesters, updates) ==
    [Scenario(dialogs, msgs,
              [r \in 1..(updates * Len(accounts)) |->
                  Call(accounts[((r - 1) % Len(accounts)) + 1], 1)],
              {}, 0, 0, 0)
        EXCEPT !.requesters = requesters, !.accounts = accounts, !.updates = updates]

\* One update of one requester, every configured account with one group and one
\* sender.
OrchestrationScenario ==
    HandlerScenario(<< Dialog(1, "A", TRUE, FALSE, TRUE, 50) >>,
                    [d \in 1..1 |-> << Msg(1, 1, 1, FALSE) >>],
                    [i \in 1..MaxAccounts |-> GoodAccount], {1}, 1)

\* Updates of some requesters, one configured account without any dialog.
RequestersScenario(requesters, updates) ==
    HandlerScenario(<< >>, << >>, << GoodAccount >>, requesters, updates)

HandlerScenarios ==
    { OrchestrationScenario, RequestersScenario({1}, MaxUpdates),
      RequestersScenario({1, 2}, MaxUpdates - 1) }

Scenarios ==
    { FanoutScenario, RerunScenario, StoreScenario, NullCountScenario,
      TwoGroupScenario("A", {}), TwoGroupScenario("B", {}),
      TwoGroupScenario("B", {Row(2, 0, SecText(0), "Z", 9)}),
      LocateScenario(1), LocateScenario(3) }
    \cup { AccountScenario(Account(p, i, h)) : p \in BOOLEAN, i \in BOOLEAN, h \in BOOLEAN }

\* ------------------------------------------------------------ pure helpers
Min(a, b) == IF a < b THEN a ELSE b

RECURSIVE Reverse(_)
Reverse(s) == IF s = << >> THEN << >> ELSE Append(Reverse(Tail(s)), Head(s))

Take(s, n) == SubSeq(s, 1, Min(n, Len(s)))

Range(s) == {s[i] : i \in 1..Len(s)}

\* All orders in which a set can be iterated (Python iterates a set in hash order).
Orders(S) ==
    {f \in [1..Cardinality(S) -> S] : \A i, j \in 1..Cardinality(S) : f[i] = f[j] => i = j}

\* The message a probe loop stops at: the first of s dated day, else none.
NoMsg == Msg(0, 0, NoId, FALSE)

\* A probe loop without the date test: it stops at the first message it is given.
FirstOfProbe(s, day) == IF s = << >> THEN NoMsg ELSE Head(s)

FirstOnDay(s, day) ==
    LET hits == SelectSeq(s, LAMBDA m : m.day = day)
    IN IF hits = << >> THEN NoMsg ELSE Head(hits)

\* client.iter_messages(chat, offset_date=end_of_day + 1s, limit=50): the newest 50
\* messages dated before the offset, newest first.
ProbeBackward(history, day) ==
    Take(Reverse(SelectSeq(history, LAMBDA m : m.day <= day)), ProbeLimit)

\* client.iter_messages(chat, offset_date=start_of_day, reverse=True, limit=50): the
\* oldest 50 messages dated from the offset on, oldest first.
ProbeForward(history, day) ==
    Take(SelectSeq(history, LAMBDA m : m.day >= day), ProbeLimit)

\* client.iter_messages(chat, min_id=lo, max_id=hi): Telethon excludes both ids;
\* the messages with lo < id < hi, newest first.
iter_messages(history, lo, hi) ==
    Reverse(SelectSeq(history, LAMBDA m : m.id > lo /\ m.id < hi))

\* A walk that passes the located boundaries to the remote as they are.
WalkedRangeUnpadded(history, min_id, max_id) == iter_messages(history, min_id, max_id)

\* The range process_dialog_enhanced walks for located boundaries.
WalkedRange(history, min_id, max_id) == iter_messages(history, min_id - 1, max_id + 1)

\* The group filter of get_users_from_chats_enhanced. A participants_count of None
\* makes "None > 10" raise TypeError.
FilterRaises(dialogs) ==
    \E i \in 1..Len(dialogs) :
        LET d == dialogs[i] IN d.is_group /\ ~d.archived /\ d.hasCount /\ d.count = -1

Keeps(d) ==
    d.is_group /\ ~d.archived /\ (IF d.hasCount THEN d.count > MinParticipants ELSE TRUE)

filtered_dialogs(dialogs) == SelectSeq(dialogs, Keeps)

\* ----------------------------------------------------------------- the store
\* The users table is a bag of rows: SQLite gives every row its own rowid, so two
\* rows may agree on every column.
StoredRows(table) == BagToSet(table)

\* CONSTRAINT unique_user_collection UNIQUE (user_id, collected_at, source_group):
\* SQLite holds NULLs distinct from each other in a UNIQUE constraint.
UniqueConflict(table, row) ==
    \E s \in StoredRows(table) :
        /\ s.user_id = row.user_id
        /\ s.collected_at = row.collected_at
        /\ s.source_group = row.source_group
        /\ row.source_group # NULL

\* INSERT OR IGNORE of one row: a NOT NULL or UNIQUE conflict skips the row.
InsertOrIgnore(table, row) ==
    IF row.user_id = NoId \/ row.collected_at = NullText \/ UniqueConflict(table, row)
    THEN table
    ELSE table (+) SetToBag({row})

\* cursor.executemany(INSERT OR IGNORE ..., batch)
RECURSIVE executemany(_, _)
executemany(table, batch) ==
    IF batch = << >> THEN table
    ELSE executemany(InsertOrIgnore(table, Head(batch)), Tail(batch))

\* for i in range(0, len(users_data), batch_size): executemany(users_data[i:i+batch_size])
RECURSIVE InsertBatches(_, _, _)
InsertBatches(table, users_data, i) ==
    IF i > Len(users_data) THEN table
    ELSE InsertBatches(
             executemany(table, SubSeq(users_data, i, Min(i + BatchSize - 1, Len(users_data)))),
             users_data, i + BatchSize)

\* DatabaseManager.insert_users: fault "init" is init_database raising (outside the
\* try, it propagates), "error" any exception inside the unit of work (rollback,
\* return 0). The result: the table, the returned count, whether it raised.
insert_users(table, users_data, fault) ==
    IF fault = "init" THEN [table |-> table, count |-> 0, raised |-> TRUE]
    ELSE IF users_data = << >> \/ fault = "error"
    THEN [table |-> table, count |-> 0, raised |-> FALSE]
    ELSE LET after == InsertBatches(table, users_data, 1)
         IN [table |-> after,
             count |-> BagCardinality(after) - BagCardinality(table),
             raised |-> FALSE]

\* DatabaseManager.get_existing_user_ids: "select" is the query failing, answered
\* with an empty set.
get_existing_user_ids(table, fault) ==
    IF fault = "init" THEN [ids |-> {}, raised |-> TRUE]
    ELSE IF fault = "select" THEN [ids |-> {}, raised |-> FALSE]
    ELSE [ids |-> {s.user_id : s \in StoredRows(table)}, raised |-> FALSE]

\* DatabaseManager.add_user: one INSERT OR IGNORE; collection_time is a datetime
\* (written with isoformat) or missing (datetime.now().isoformat()).
add_user(table, user_id, collection_time, source_group, clock) ==
    LET collected_at == IF collection_time = -1 THEN IsoText(clock) ELSE IsoText(collection_time)
    IN InsertOrIgnore(table, Row(user_id, 0, collected_at, source_group, 0))

\* The rows a write added to the table.
AddedRows(before, after) == BagToSet(after (-) before)

\* -------------------------------------------------------------------- state
VARIABLES
    scenario,     \* the scenario of this behaviour (never changes)
    now,          \* the wall clock, in seconds
    users_table,  \* the users table of bot/data/all_users.db
    run,          \* per call of get_users_from_chats_enhanced: its locals and position
    task,         \* per call and dialog: the bounded_process task of that dialog
    semaphore,    \* per call: the value of its asyncio.Semaphore
    floodsLeft,   \* FloodWaitErrors the remote may still raise
    faultsLeft,   \* other exceptions the remote may still raise inside harvests
    directLeft,   \* direct store calls still to come
    active_tasks, \* aiogram_loader.active_tasks: the chat ids with a running task
    handler,      \* per incoming update: the handler coroutine that serves it
    fsm,          \* the FSM context of the date-range conversation
    insert_call,  \* the last direct call of DatabaseManager.insert_users: arguments and result
    connection_pool, \* DatabaseManager._connection_pool: the idle connections
    units,        \* per unit of work of DatabaseManager.get_connection: its position and connection
    connections,  \* per sqlite3 connection created so far: open or closed
    legacy,       \* per call of the flat-file get_users_from_chats_enhanced (src/bot.py): its locals
    all_users_xlsx \* the flat-file store all_users.xlsx of src/bot.py: its rows, or unreadable

handlerVars == << active_tasks, handler, fsm >>

storeVars == << insert_call, connection_pool, units, connections, legacy, all_users_xlsx >>

vars == << scenario, now, users_table, run, task, semaphore, floodsLeft, faultsLeft, directLeft,
           active_tasks, handler, fsm, insert_call, connection_pool, units,
           connections, legacy, all_users_xlsx >>

Calls == scenario.calls
Runs == 1..Len(Calls)
Dialogs == scenario.dialogs
DialogIds == {Dialogs[i].id : i \in 1..Len(Dialogs)}
DialogOf(d) == CHOOSE x \in Range(Dialogs) : x.id = d
History(d) == scenario.msgs[d]

\* A line of result_message: its kind and the number it reports.
Line(kind, n) == [kind |-> kind, n |-> n]

Kinds(lines) == {lines[i].kind : i \in 1..Len(lines)}

NewRun ==
    [pc |-> "ready", result_message |-> << >>, file_path |-> FALSE, file_rows |-> {},
     client |-> FALSE, disconnects |-> 0, filtered |-> {}, all_users |-> {},
     new_users |-> {}, inserted |-> {}, inserted_count |-> 0, events |-> << >>,
     faults |-> 0, after |-> {}, write |-> "none", listed |-> FALSE, floods |-> << >>,
     read |-> "none"]

NewTask ==
    [pc |-> "idle", users |-> {}, unique_senders |-> {}, last_id |-> 0, min_id |-> 0,
     max_id |-> 0, pos |-> 0, floods |-> << >>, slept |-> << >>, fault |-> FALSE,
     walk_floods |-> << >>]

\* The handler coroutine of an update that has not arrived yet.
HandlerIds == 1..MaxUpdates

NewHandler ==
    [pc |-> "idle", chat |-> 0, kind |-> "none", i |-> 0, processed_accounts |-> 0,
     errors |-> 0, skipped |-> {}, failed |-> {}]

\* No direct call of insert_users has been made.
NoInsertCall ==
    [made |-> FALSE, before |-> EmptyBag, users_data |-> << >>, outcomes |-> << >>,
     batch_size |-> 0, commit |-> TRUE, count |-> 0]

\* The store objects outside the collection pipeline, before any use: an empty
\* connection pool, no unit of work, no flat-file run and an empty flat file.
StoreInit ==
    /\ insert_call = NoInsertCall
    /\ connection_pool = << >>
    /\ units = << >>
    /\ connections = << >>
    /\ legacy = << >>
    /\ all_users_xlsx = {}

\* The FSM context before any conversation: no state set.
NewFsm == [state |-> NULL, input |-> << >>, verdict |-> "none", confirm |-> << >>]

Init ==
    /\ scenario \in Scenarios
    /\ active_tasks = {}
    /\ handler = [h \in HandlerIds |-> NewHandler]
    /\ fsm = NewFsm
    /\ StoreInit
    /\ now = 0
    /\ users_table = SetToBag(scenario.store)
    /\ run = [r \in Runs |-> NewRun]
    /\ task = [r \in Runs |-> [d \in DialogIds |-> NewTask]]
    /\ semaphore = [r \in Runs |-> 0]
    /\ floodsLeft = scenario.floods
    /\ faultsLeft = scenario.faults
    /\ directLeft = scenario.direct

Ended(r) == run[r].pc \in {"returned", "raised"}

\* ------------------------------------------- get_users_from_chats_enhanced
\* A statement that raises outside the try block: the exception leaves the call.
Propagate(rn) == [rn EXCEPT !.pc = "raised"]

\* A return that skips the finally clause.
LeaveWithoutFinally(rn, line) ==
    [rn EXCEPT !.pc = "returned", !.result_message = Append(@, line)]

\* A return, or a caught exception, inside the try block: the finally clause runs
\* next, with the line added to result_message.
LeaveTry(rn, line) ==
    [rn EXCEPT !.pc = "finally", !.result_message = Append(@, line)]

\* A return for missing credentials that reports nothing.
MissingCredentialsSilent(rn) == [rn EXCEPT !.pc = "returned"]

\* Lines 185-189: the account lacks api_id or api_hash; the error line is added
\* and the call returns, before any client exists.
MissingCredentials(rn) ==
    [rn EXCEPT !.pc = "returned", !.result_message = << Line("missing_credentials", 0) >>]

\* Lines 182-195: the credentials check and the construction of the client, both
\* before the try block. account['phone_number'] raises KeyError without the key;
\* TelegramClient(...) opens the session file and may raise.
StartCollect(r) ==
    /\ run[r].pc = "ready"
    /\ LET a == Calls[r].account
           rn == [run[r] EXCEPT !.after = {q \in Runs : Ended(q)}]
       IN IF ~a.api_id \/ ~a.api_hash
          THEN IF a.has_phone
               THEN run' = [run EXCEPT ![r] = MissingCredentials(rn)]
               ELSE run' = [run EXCEPT ![r] = Propagate(rn)]
          ELSE IF ~a.has_phone
               THEN run' = [run EXCEPT ![r] = Propagate(rn)]
               ELSE \E constructed \in BOOLEAN :
                        LET rp == [rn EXCEPT !.result_message = << Line("processing", 0) >>]
                        IN IF constructed
                           THEN run' = [run EXCEPT ![r] = [rp EXCEPT !.pc = "created", !.client = TRUE]]
                           ELSE run' = [run EXCEPT ![r] = Propagate(rp)]
    /\ UNCHANGED << storeVars, scenario, now, users_table, task, semaphore, floodsLeft, faultsLeft, directLeft, handlerVars >>

\* Lines 198-203: client.start and client.is_user_authorized.
ClientStart(r) ==
    /\ run[r].pc = "created"
    /\ \E outcome \in {"ok", "password_needed", "error", "not_authorized"} :
           run' = [run EXCEPT ![r] =
               CASE outcome = "ok" -> [@ EXCEPT !.pc = "authorized"]
                 [] outcome = "password_needed" ->
                        LeaveTry([@ EXCEPT !.faults = @ + 1], Line("2fa_required", 0))
                 [] outcome = "error" ->
                        LeaveTry([@ EXCEPT !.faults = @ + 1], Line("account_error", 0))
                 [] OTHER -> LeaveTry([@ EXCEPT !.faults = @ + 1], Line("not_authorized", 0))]
    /\ UNCHANGED << storeVars, scenario, now, users_table, task, semaphore, floodsLeft, faultsLeft, directLeft, handlerVars >>

\* Lines 205-236: get_me, get_dialogs, the group filter, and the creation of one
\* bounded_process task per filtered dialog behind a fresh Semaphore(3).
ListDialogs(r) ==
    /\ run[r].pc = "authorized"
    /\ \E listed \in BOOLEAN :
           IF ~listed \/ FilterRaises(Dialogs)
           THEN /\ run' = [run EXCEPT ![r] =
                        LeaveTry([@ EXCEPT !.faults = @ + 1, !.listed = listed],
                                 Line("account_error", 0))]
                /\ UNCHANGED << task, semaphore >>
           ELSE LET kept == filtered_dialogs(Dialogs)
                    ids == {kept[i].id : i \in 1..Len(kept)}
                    found == [run[r] EXCEPT
                                 !.listed = TRUE,
                                 !.result_message = Append(@, Line("found_groups", Len(kept))),
                                 !.filtered = ids]
                IN IF kept = << >>
                   THEN /\ run' = [run EXCEPT ![r] = LeaveTry(found, Line("no_groups", 0))]
                        /\ UNCHANGED << task, semaphore >>
                   ELSE /\ run' = [run EXCEPT ![r] = [found EXCEPT !.pc = "gather"]]
                        /\ task' = [task EXCEPT ![r] =
                               [d \in DialogIds |->
                                   IF d \in ids THEN [NewTask EXCEPT !.pc = "waiting"] ELSE NewTask]]
                        /\ semaphore' = [semaphore EXCEPT ![r] = SemaphoreLimit]
    /\ UNCHANGED << storeVars, scenario, now, users_table, floodsLeft, faultsLeft, directLeft, handlerVars >>

\* Lines 298-304: the finally clause; an exception of disconnect is swallowed.
Disconnect(r) ==
    /\ run[r].pc = "finally"
    /\ \E raises \in BOOLEAN :
           run' = [run EXCEPT ![r].disconnects = @ + 1, ![r].pc = "returned"]
    /\ UNCHANGED << storeVars, scenario, now, users_table, task, semaphore, floodsLeft, faultsLeft, directLeft, handlerVars >>

\* Line 208 and 294-296: client.get_dialogs() raises FloodWaitError; no clause of
\* get_users_from_chats_enhanced names it, so the generic except clause takes it.
DialogsFlood(r) ==
    /\ run[r].pc = "authorized"
    /\ floodsLeft > 0
    /\ floodsLeft' = floodsLeft - 1
    /\ \E seconds \in Durations :
           run' = [run EXCEPT ![r] =
               LeaveTry([@ EXCEPT !.faults = @ + 1, !.floods = Append(@, seconds)],
                        Line("account_error", 0))]
    /\ UNCHANGED << storeVars, scenario, now, users_table, task, semaphore, faultsLeft, directLeft, handlerVars >>

\* The wall clock advances.
Tick ==
    /\ now < MaxTime
    /\ now' = now + 1
    /\ UNCHANGED << storeVars, scenario, users_table, run, task, semaphore, floodsLeft, faultsLeft, directLeft, handlerVars >>

\* ------------------------------------------------- bounded_process, per dialog
Running(r) == {d \in DialogIds : task[r][d].pc \in {"probe1", "probe2", "iter"}}

\* A semaphore that admits every task.
SemaphoreUnbounded(value) == TRUE

\* asyncio.Semaphore.acquire: free while the value is positive.
SemaphoreFree(value) == value > 0

\* process_dialog_enhanced returns (lines 109, 124, 177): the task is done with
\* the users it holds, and "async with semaphore" releases.
Return(t) == [t EXCEPT !.pc = "done"]

\* A retry with a cap: the second rate-limit signal in a row is answered with
\* (None, None), and the sleep is a fixed second.
FloodWaitGiveUp(t, seconds) ==
    IF Len(t.floods) >= 1
    THEN [t EXCEPT !.floods = Append(@, seconds), !.pc = "done"]
    ELSE [t EXCEPT !.floods = Append(@, seconds), !.slept = Append(@, 1),
                   !.pc = "probe1", !.last_id = 0]

\* Lines 94-97 of find_date_boundaries: sleep e.seconds, then look up again from
\* the first probe.
FloodWaitRetry(t, seconds) ==
    [t EXCEPT !.floods = Append(@, seconds), !.slept = Append(@, seconds),
              !.pc = "probe1", !.last_id = 0]

\* Lines 98-100 of find_date_boundaries, then lines 121-124: (None, None), and
\* the dialog is answered with the empty set.
BoundariesError(t) == Return([t EXCEPT !.fault = TRUE])

\* Lines 173-177 of process_dialog_enhanced: an exception of the iteration is
\* logged and the users collected so far are returned.
DialogError(t) == Return([t EXCEPT !.fault = TRUE])

\* Lines 130-168: one message of the walked range.
process_message(t, m, dialog, date, clock) ==
    IF m.day = date /\ m.sender # NoId
    THEN IF m.sender \notin t.unique_senders
         THEN IF m.bad
              THEN [t EXCEPT !.unique_senders = @ \cup {m.sender}]
              ELSE [t EXCEPT !.unique_senders = @ \cup {m.sender},
                             !.users = @ \cup {Row(m.sender, m.id, SecText(clock),
                                                  dialog.title, dialog.id)}]
         ELSE t
    ELSE t

\* Lines 231-233 and 105-119: the task passes the semaphore and enters
\* process_dialog_enhanced up to the first probe of find_date_boundaries.
Acquire(r, d) ==
    /\ run[r].pc = "gather"
    /\ task[r][d].pc = "waiting"
    /\ SemaphoreFree(semaphore[r])
    /\ semaphore' = [semaphore EXCEPT ![r] = @ - 1]
    /\ task' = [task EXCEPT ![r][d].pc = "probe1"]
    /\ UNCHANGED << storeVars, scenario, now, users_table, run, floodsLeft, faultsLeft, directLeft, handlerVars >>

\* A task that keeps its slot of the semaphore when it ends.
FinishKeepsSlot(r, d, t) ==
    /\ task' = [task EXCEPT ![r][d] = t]
    /\ UNCHANGED semaphore

\* The task of dialog d ends with t: the semaphore is released.
Finish(r, d, t) ==
    /\ task' = [task EXCEPT ![r][d] = t]
    /\ semaphore' = [semaphore EXCEPT ![r] = IF t.pc = "done" THEN @ + 1 ELSE @]

\* Lines 73-80: the backward probe for the last message of the day.
Probe1(r, d) ==
    /\ task[r][d].pc = "probe1"
    /\ LET last == FirstOnDay(ProbeBackward(History(d), Calls[r].date), Calls[r].date)
       IN IF last = NoMsg
          THEN Finish(r, d, Return(task[r][d]))
          ELSE Finish(r, d, [task[r][d] EXCEPT !.pc = "probe2", !.last_id = last.id])
    /\ UNCHANGED << storeVars, scenario, now, users_table, run, floodsLeft, faultsLeft, directLeft, handlerVars >>

\* Lines 82-92 and 119-129: the forward probe for the first message of the day,
\* the boundaries, and the start of the walk over [min_id - 1, max_id + 1].
Probe2(r, d) ==
    /\ task[r][d].pc = "probe2"
    /\ LET first == FirstOnDay(ProbeForward(History(d), Calls[r].date), Calls[r].date)
           min_id == first.id
           max_id == task[r][d].last_id
       IN IF first = NoMsg \/ min_id = 0 \/ max_id = 0
          THEN Finish(r, d, Return(task[r][d]))
          ELSE Finish(r, d, [task[r][d] EXCEPT !.pc = "iter", !.min_id = min_id,
                                               !.max_id = max_id, !.pos = 1])
    /\ UNCHANGED << storeVars, scenario, now, users_table, run, floodsLeft, faultsLeft, directLeft, handlerVars >>

\* A probe of find_date_boundaries raises FloodWaitError.
ProbeFlood(r, d) ==
    /\ task[r][d].pc \in {"probe1", "probe2"}
    /\ floodsLeft > 0
    /\ floodsLeft' = floodsLeft - 1
    /\ \E seconds \in Durations : Finish(r, d, FloodWaitRetry(task[r][d], seconds))
    /\ UNCHANGED << storeVars, scenario, now, users_table, run, faultsLeft, directLeft, handlerVars >>

\* A probe of find_date_boundaries raises another exception.
ProbeError(r, d) ==
    /\ task[r][d].pc \in {"probe1", "probe2"}
    /\ faultsLeft > 0
    /\ faultsLeft' = faultsLeft - 1
    /\ Finish(r, d, BoundariesError(task[r][d]))
    /\ UNCHANGED << storeVars, scenario, now, users_table, run, floodsLeft, directLeft, handlerVars >>

Walk(r, d) == WalkedRange(History(d), task[r][d].min_id, task[r][d].max_id)

\* Lines 129-168: the walk yields its next message.
IterMessage(r, d) ==
    /\ task[r][d].pc = "iter"
    /\ task[r][d].pos <= Len(Walk(r, d))
    /\ LET t == process_message(task[r][d], Walk(r, d)[task[r][d].pos], DialogOf(d),
                                Calls[r].date, now)
       IN Finish(r, d, [t EXCEPT !.pos = @ + 1])
    /\ UNCHANGED << storeVars, scenario, now, users_table, run, floodsLeft, faultsLeft, directLeft, handlerVars >>

\* Lines 170-177: the walk is exhausted.
IterEnd(r, d) ==
    /\ task[r][d].pc = "iter"
    /\ task[r][d].pos > Len(Walk(r, d))
    /\ Finish(r, d, Return(task[r][d]))
    /\ UNCHANGED << storeVars, scenario, now, users_table, run, floodsLeft, faultsLeft, directLeft, handlerVars >>

\* Lines 129 and 173-177: a fetch of the walk raises FloodWaitError; the except
\* clause of process_dialog_enhanced takes it like any exception, without a sleep.
IterFlood(r, d) ==
    /\ task[r][d].pc = "iter"
    /\ floodsLeft > 0
    /\ floodsLeft' = floodsLeft - 1
    /\ \E seconds \in Durations :
           Finish(r, d, DialogError([task[r][d] EXCEPT !.walk_floods = Append(@, seconds)]))
    /\ UNCHANGED << storeVars, scenario, now, users_table, run, faultsLeft, directLeft, handlerVars >>

\* The walk raises another exception (a remote error).
IterError(r, d) ==
    /\ task[r][d].pc = "iter"
    /\ faultsLeft > 0
    /\ faultsLeft' = faultsLeft - 1
    /\ Finish(r, d, DialogError(task[r][d]))
    /\ UNCHANGED << storeVars, scenario, now, users_table, run, floodsLeft, directLeft, handlerVars >>

\* ----------------------------------------------- merge and persist, lines 236-290
\* Lines 239-244: the union of the tasks' result sets.
merge(results) == UNION results

\* A persistence step that takes every harvested row as new.
all_as_new(all_users, existing_ids) == all_users

\* Lines 259-262: the rows whose user_id is not among the existing ids.
new_users(all_users, existing_ids) == {row \in all_users : row.user_id \notin existing_ids}

\* Lines 266-282: the rows written to the reply file, DataFrame(list(new_users)).
reply_rows(new, inserted) == new

\* A persistence step that reads the store without the backup.
ReadWithoutBackup == << "read" >>

\* Lines 252-256: DatabaseManager.backup_database() (a copy of the store file,
\* its errors logged and swallowed), then get_existing_user_ids().
BackupThenRead == << "backup", "read" >>

\* Lines 286-288: an exception of the store calls is caught and reported.
DatabaseError(rn) == LeaveTry([rn EXCEPT !.faults = @ + 1], Line("db_error", 0))

\* gather without return_exceptions: the first failed task ends the wait.
GatherFailFast(r) ==
    \/ \A d \in run[r].filtered : task[r][d].pc = "done"
    \/ \E d \in run[r].filtered : task[r][d].pc = "done" /\ task[r][d].fault

\* Lines 235-236: asyncio.gather(*tasks, return_exceptions=True) returns when
\* every task has ended, whatever its outcome.
GatherReturns(r) == \A d \in run[r].filtered : task[r][d].pc = "done"

\* gather has returned; nothing between here and the finally clause suspends the
\* call (backup_database awaits nothing), so the step is atomic in the event loop.
Persist(r) ==
    /\ run[r].pc = "gather"
    /\ GatherReturns(r)
    /\ LET all == merge({task[r][d].users : d \in run[r].filtered})
           merged == [run[r] EXCEPT !.all_users = all]
       IN IF all = {}
          THEN /\ run' = [run EXCEPT ![r] = LeaveTry(merged, Line("no_users", 0))]
               /\ UNCHANGED users_table
          ELSE \E read \in {"ok", "init", "select"} :
               LET got == get_existing_user_ids(users_table, read)
                   backed == [merged EXCEPT !.events = BackupThenRead,
                                            !.read = read,
                                            !.faults = IF read = "select" THEN @ + 1 ELSE @]
                   new == new_users(all, got.ids)
                   filtered == [backed EXCEPT !.new_users = new]
               IN IF got.raised
                  THEN /\ run' = [run EXCEPT ![r] = DatabaseError(backed)]
                       /\ UNCHANGED users_table
                  ELSE IF new = {}
                  THEN /\ run' = [run EXCEPT ![r] = LeaveTry(filtered, Line("no_new", 0))]
                       /\ UNCHANGED users_table
                  ELSE \E order \in Orders(new), write \in {"ok", "init", "error"},
                          excel \in BOOLEAN :
                       LET res == insert_users(users_table, order, write)
                           wrote == [filtered EXCEPT
                                        !.events = Append(@, "insert"),
                                        !.inserted = AddedRows(users_table, res.table),
                                        !.inserted_count = res.count,
                                        !.write = write,
                                        !.faults = IF write = "error" THEN @ + 1 ELSE @,
                                        !.result_message =
                                            Append(@, Line("db_updated", res.count))]
                       IN IF res.raised
                          THEN /\ run' = [run EXCEPT ![r] =
                                      DatabaseError([filtered EXCEPT !.events = Append(@, "insert")])]
                               /\ UNCHANGED users_table
                          ELSE /\ users_table' = res.table
                               /\ run' = [run EXCEPT ![r] =
                                      IF excel
                                      THEN LeaveTry([wrote EXCEPT
                                                        !.events = Append(@, "file"),
                                                        !.file_path = TRUE,
                                                        !.file_rows = reply_rows(new, wrote.inserted)],
                                                    Line("file_created", Cardinality(new)))
                                      ELSE LeaveTry([wrote EXCEPT !.faults = @ + 1],
                                                    Line("file_error", 0))]
    /\ UNCHANGED << storeVars, scenario, now, task, semaphore, floodsLeft, faultsLeft, directLeft, handlerVars >>

\* ------------------------------------------------------- direct store calls
\* The rows other callers hand to the store: legacy exports read by
\* replace_database.py carry empty cells (NULL) in any column.
DirectRows ==
    {Row(1, 0, c, g, 0) : c \in {SecText(0), NullText}, g \in {"A", NULL}}

DirectBatches == {<< a >> : a \in DirectRows} \cup {<< a, b >> : a \in DirectRows, b \in DirectRows}

\* replace_database.py line 159: DatabaseManager.insert_users(users_data).
InsertUsersCall ==
    /\ directLeft > 0
    /\ directLeft' = directLeft - 1
    /\ \E batch \in DirectBatches, fault \in {"ok", "init", "error"} :
           users_table' = insert_users(users_table, batch, fault).table
    /\ UNCHANGED << storeVars, scenario, now, run, task, semaphore, floodsLeft, faultsLeft, handlerVars >>

\* manual_add.py line 109: DatabaseManager.add_user(user_data); -1 stands for a
\* user_data without collection_time.
AddUserCall ==
    /\ directLeft > 0
    /\ directLeft' = directLeft - 1
    /\ \E user_id \in {1, 2}, collection_time \in {-1, 0}, source_group \in {"M", NULL} :
           users_table' = add_user(users_table, user_id, collection_time, source_group, now)
    /\ UNCHANGED << storeVars, scenario, now, run, task, semaphore, floodsLeft, faultsLeft, handlerVars >>

\* ------------------------------------------------------------ specification
Next ==
    \/ Tick
    \/ InsertUsersCall
    \/ AddUserCall
    \/ \E r \in Runs : StartCollect(r)
    \/ \E r \in Runs : ClientStart(r)
    \/ \E r \in Runs : ListDialogs(r)
    \/ \E r \in Runs : Persist(r)
    \/ \E r \in Runs : Disconnect(r)
    \/ \E r \in Runs, d \in DialogIds : Acquire(r, d)
    \/ \E r \in Runs, d \in DialogIds : Probe1(r, d)
    \/ \E r \in Runs, d \in DialogIds : Probe2(r, d)
    \/ \E r \in Runs, d \in DialogIds : ProbeFlood(r, d)
    \/ \E r \in Runs, d \in DialogIds : ProbeError(r, d)
    \/ \E r \in Runs, d \in DialogIds : IterMessage(r, d)
    \/ \E r \in Runs, d \in DialogIds : IterEnd(r, d)
    \/ \E r \in Runs, d \in DialogIds : IterError(r, d)
    \/ \E r \in Runs : DialogsFlood(r)
    \/ \E r \in Runs, d \in DialogIds : IterFlood(r, d)

Spec == Init /\ [][Next]_vars

\* ------------------------------------------------- the collection handlers
\* start_processing_enhanced (a date button or a typed date), handle_process_range
\* and handle_process_missed_enhanced, each serving one update. The three walk
\* parser_cfg.accounts and await get_users_from_chats_enhanced per account; the
\* range and missed-days handlers do so per day, of which one is modelled.
Accounts == scenario.accounts
AccountIds == 1..Len(Accounts)
Requesters == scenario.requesters
HandlerKinds == {"single", "range", "missed"}

\* The call handler h makes for the i-th account.
RunOf(h, i) == (h - 1) * Len(Accounts) + i

\* The status lines that carry the failure mark of an account.
FailureKinds == {"not_authorized", "2fa_required", "account_error"}

\* The handler holds the flag of its chat: from "active_tasks[user_id] = True"
\* to the finally clause.
Active(h) == handler[h].pc \in {"starting", "day", "edit", "collect", "report"}

\* A rejection that also clears the flag (a return inside the try block).
RejectedClears(tasks, chat) == tasks \ {chat}

\* "if user_id in active_tasks: ...; return": the return is before the try
\* block, so the finally clause does not run and the flag stays.
Rejected(tasks, chat) == tasks

\* A task that ends without its finally clause.
PoppedNothing(tasks, chat) == tasks

\* The finally clause: active_tasks.pop(user_id, None).
Popped(tasks, chat) == tasks \ {chat}

\* A loop that stops at the first account whose result carries a failure line.
StopAtFailedAccount(hd, lines) ==
    [hd EXCEPT !.i = @ + 1,
               !.pc = IF hd.i < Len(Accounts) /\ Kinds(lines) \cap FailureKinds = {}
                      THEN IF hd.kind = "single" THEN "edit" ELSE "collect"
                      ELSE "report"]

\* The for loop over accounts moves on, whatever the result lines of the account
\* it has just served (none when the account was skipped or its call raised).
NextAccount(hd, lines) ==
    [hd EXCEPT !.i = @ + 1,
               !.pc = IF hd.i < Len(Accounts)
                      THEN IF hd.kind = "single" THEN "edit" ELSE "collect"
                      ELSE "report"]

\* An update reaches its handler, which runs to its first await
\* (callback_query.answer()); updates are served in their order of arrival.
Arrive(h) ==
    /\ handler[h].pc = "idle"
    /\ h <= scenario.updates
    /\ h > 1 => handler[h - 1].pc # "idle"
    /\ \E chat \in Requesters, kind \in HandlerKinds :
           handler' = [handler EXCEPT ![h] = [NewHandler EXCEPT !.pc = "check", !.chat = chat,
                                                                !.kind = kind]]
    /\ UNCHANGED << storeVars, scenario, now, users_table, run, task, semaphore, floodsLeft, faultsLeft,
                    directLeft, active_tasks, fsm >>

\* The check of active_tasks and, when the chat has no task, the setting of its
\* flag: no await lies between the two.
CheckActive(h) ==
    /\ handler[h].pc = "check"
    /\ IF handler[h].chat \in active_tasks
       THEN /\ active_tasks' = Rejected(active_tasks, handler[h].chat)
            /\ handler' = [handler EXCEPT ![h] = [NewHandler EXCEPT !.pc = "rejecting"]]
       ELSE /\ active_tasks' = active_tasks \cup {handler[h].chat}
            /\ handler' = [handler EXCEPT ![h].pc = "starting"]
    /\ UNCHANGED << storeVars, scenario, now, users_table, run, task, semaphore, floodsLeft, faultsLeft,
                    directLeft, fsm >>

\* The rejected handler has sent (or failed to send) its warning and returns.
RejectReply(h) ==
    /\ handler[h].pc = "rejecting"
    /\ \E sent \in BOOLEAN :
           handler' = [handler EXCEPT ![h] = [NewHandler EXCEPT !.pc = "rejected"]]
    /\ UNCHANGED << storeVars, scenario, now, users_table, run, task, semaphore, floodsLeft, faultsLeft,
                    directLeft, active_tasks, fsm >>

\* The first message of the task (the status message, or the edit that announces
\* the days): when it raises, the finally clause ends the task at once.
Begin(h) ==
    /\ handler[h].pc = "starting"
    /\ \E sent \in BOOLEAN :
           IF sent
           THEN /\ handler' = [handler EXCEPT
                       ![h].pc = IF handler[h].kind = "single" THEN "edit" ELSE "day",
                       ![h].i = 1]
                /\ UNCHANGED active_tasks
           ELSE /\ handler' = [handler EXCEPT ![h] = [NewHandler EXCEPT !.pc = "ended"]]
                /\ active_tasks' = Popped(active_tasks, handler[h].chat)
    /\ UNCHANGED << storeVars, scenario, now, users_table, run, task, semaphore, floodsLeft, faultsLeft,
                    directLeft, fsm >>

\* The progress edit of the day (range and missed-days handlers): when it raises,
\* the day's except clause counts an error and the day's accounts are not served.
DayProgress(h) ==
    /\ handler[h].pc = "day"
    /\ \E edited \in BOOLEAN :
           handler' = [handler EXCEPT ![h] =
               IF edited THEN [@ EXCEPT !.pc = "collect"]
               ELSE [@ EXCEPT !.pc = "report", !.errors = @ + 1, !.skipped = AccountIds]]
    /\ UNCHANGED << storeVars, scenario, now, users_table, run, task, semaphore, floodsLeft, faultsLeft,
                    directLeft, active_tasks, fsm >>

\* parser.py lines 87-93 and 101-104: the progress edit of one account; when it
\* raises, the except clause adds an error line and the loop moves on.
LoopEdit(h) ==
    /\ handler[h].pc = "edit"
    /\ \E edited \in BOOLEAN :
           handler' = [handler EXCEPT ![h] =
               IF edited THEN [@ EXCEPT !.pc = "collect"]
               ELSE NextAccount([@ EXCEPT !.errors = @ + 1, !.skipped = @ \cup {handler[h].i}],
                                << >>)]
    /\ UNCHANGED << storeVars, scenario, now, users_table, run, task, semaphore, floodsLeft, faultsLeft,
                    directLeft, active_tasks, fsm >>

\* The handler calls get_users_from_chats_enhanced for its current account.
LoopCollect(h) ==
    /\ handler[h].pc = "collect"
    /\ StartCollect(RunOf(h, handler[h].i))

\* The call has ended: its lines are added to all_results (the accounts with a
\* failure line are kept), or its exception is caught and counted; the call's
\* frame is gone.
LoopResume(h) ==
    /\ handler[h].pc = "collect"
    /\ LET r == RunOf(h, handler[h].i)
           lines == run[r].result_message
       IN /\ Ended(r)
          /\ handler' = [handler EXCEPT ![h] =
                 IF run[r].pc = "returned"
                 THEN NextAccount(
                          [@ EXCEPT !.processed_accounts =
                                        IF handler[h].kind = "single" THEN @ + 1 ELSE @,
                                    !.failed = @ \cup {<< handler[h].i, k >> :
                                                           k \in Kinds(lines) \cap FailureKinds}],
                          lines)
                 ELSE NextAccount([@ EXCEPT !.errors = @ + 1], << >>)]
          /\ run' = [run EXCEPT ![r] = [NewRun EXCEPT !.pc = "consumed"]]
          /\ task' = [task EXCEPT ![r] = [d \in DialogIds |-> NewTask]]
          /\ semaphore' = [semaphore EXCEPT ![r] = 0]
    /\ UNCHANGED << storeVars, scenario, now, users_table, floodsLeft, faultsLeft, directLeft,
                    active_tasks, fsm >>

\* The report, the files and the database export are sent (or one of the sends
\* raises), and the finally clause clears the flag.
Report(h) ==
    /\ handler[h].pc = "report"
    /\ \E sent \in BOOLEAN :
           handler' = [handler EXCEPT ![h] = [NewHandler EXCEPT !.pc = "ended"]]
    /\ active_tasks' = Popped(active_tasks, handler[h].chat)
    /\ UNCHANGED << storeVars, scenario, now, users_table, run, task, semaphore, floodsLeft, faultsLeft,
                    directLeft, fsm >>

HandlerInit ==
    /\ scenario \in HandlerScenarios
    /\ active_tasks = {}
    /\ handler = [h \in HandlerIds |-> NewHandler]
    /\ fsm = NewFsm
    /\ StoreInit
    /\ now = 0
    /\ users_table = SetToBag(scenario.store)
    /\ run = [r \in Runs |-> NewRun]
    /\ task = [r \in Runs |-> [d \in DialogIds |-> NewTask]]
    /\ semaphore = [r \in Runs |-> 0]
    /\ floodsLeft = scenario.floods
    /\ faultsLeft = scenario.faults
    /\ directLeft = scenario.direct

HandlerNext ==
    \/ \E h \in HandlerIds : Arrive(h)
    \/ \E h \in HandlerIds : CheckActive(h)
    \/ \E h \in HandlerIds : RejectReply(h)
    \/ \E h \in HandlerIds : Begin(h)
    \/ \E h \in HandlerIds : DayProgress(h)
    \/ \E h \in HandlerIds : LoopEdit(h)
    \/ \E h \in HandlerIds : LoopCollect(h)
    \/ \E h \in HandlerIds : LoopResume(h)
    \/ \E h \in HandlerIds : Report(h)
    \/ \E r \in Runs : ClientStart(r)
    \/ \E r \in Runs : ListDialogs(r)
    \/ \E r \in Runs : Persist(r)
    \/ \E r \in Runs : Disconnect(r)
    \/ \E r \in Runs, d \in DialogIds : Acquire(r, d)
    \/ \E r \in Runs, d \in DialogIds : Probe1(r, d)
    \/ \E r \in Runs, d \in DialogIds : Probe2(r, d)
    \/ \E r \in Runs, d \in DialogIds : IterMessage(r, d)
    \/ \E r \in Runs, d \in DialogIds : IterEnd(r, d)

HandlerSpec == HandlerInit /\ [][HandlerNext]_vars

\* ------------------------------------- a chat that is rate-limited for ever
\* The fan-out of one account over four kept groups, the semaphore admitting
\* three, while every locator probe of one chat raises FloodWaitError: after
\* MaxFlood recorded signals the further retries leave the state as it is.
LiveScenario(blocked) ==
    [FanoutScenario EXCEPT !.floods = MaxFlood, !.blocked = blocked]

LiveChats == 1..7

\* The probes of every chat but the rate-limited one answer.
LiveProbe1(r, d) == d # scenario.blocked /\ Probe1(r, d)

LiveProbeError(r, d) == d # scenario.blocked /\ ProbeError(r, d)

\* Every probe of the rate-limited chat raises FloodWaitError: sleep, retry.
BlockedProbe(r, d) == d = scenario.blocked /\ ProbeFlood(r, d)

\* The steps the event loop runs for the task of one dialog once it is ready.
TaskStep(r, d) ==
    \/ Acquire(r, d)
    \/ LiveProbe1(r, d)
    \/ Probe2(r, d)
    \/ IterMessage(r, d)
    \/ IterEnd(r, d)

LiveInit ==
    /\ scenario \in {LiveScenario(1), LiveScenario(0)}
    /\ active_tasks = {}
    /\ handler = [h \in HandlerIds |-> NewHandler]
    /\ fsm = NewFsm
    /\ StoreInit
    /\ now = 0
    /\ users_table = SetToBag(scenario.store)
    /\ run = [r \in Runs |-> NewRun]
    /\ task = [r \in Runs |-> [d \in DialogIds |-> NewTask]]
    /\ semaphore = [r \in Runs |-> 0]
    /\ floodsLeft = scenario.floods
    /\ faultsLeft = scenario.faults
    /\ directLeft = scenario.direct

LiveNext ==
    \/ \E r \in Runs : StartCollect(r)
    \/ \E r \in Runs : ClientStart(r)
    \/ \E r \in Runs : ListDialogs(r)
    \/ \E r \in Runs : Persist(r)
    \/ \E r \in Runs : Disconnect(r)
    \/ \E r \in Runs, d \in DialogIds : Acquire(r, d)
    \/ \E r \in Runs, d \in DialogIds : LiveProbe1(r, d)
    \/ \E r \in Runs, d \in DialogIds : Probe2(r, d)
    \/ \E r \in Runs, d \in DialogIds : BlockedProbe(r, d)
    \/ \E r \in Runs, d \in DialogIds : LiveProbeError(r, d)
    \/ \E r \in Runs, d \in DialogIds : IterMessage(r, d)
    \/ \E r \in Runs, d \in DialogIds : IterEnd(r, d)
    \/ \E r \in Runs, d \in DialogIds : IterError(r, d)

\* The event loop runs every task that is ready, and asyncio.Semaphore wakes its
\* waiters in turn: a task step that stays possible is eventually taken.
LiveFairness == \A d \in LiveChats : WF_vars(TaskStep(1, d))

LiveSpec == LiveInit /\ [][LiveNext]_vars /\ LiveFairness

\* ------------------------------------------------ the date-range conversation
\* search.py: date_range_menu sets the state waiting_for_date_range, and
\* process_date_range serves the next message of the chat in that state.
WaitingForDateRange == "waiting_for_date_range"

\* What a message can be: no text at all (a photo), a text without " - ", a text
\* whose dates do not parse, or two dates; today is datetime.now().date().
Days == 0..MaxDay
RangeInputs ==
    {[kind |-> k, start |-> 0, end |-> 0, today |-> t] :
        k \in {"no_text", "no_separator", "bad_date"}, t \in {MaxDay - 1}}
    \cup {[kind |-> "pair", start |-> a, end |-> b, today |-> t] :
              a \in Days, b \in Days, t \in {MaxDay \div 2, MaxDay - 1}}

\* A day count that leaves out the last day.
days_between(start, end) == end - start

\* Lines 126-127: delta = end_date - start_date; days_count = delta.days + 1.
days_count(start, end) == end - start + 1

\* Lines 105-131 and 147-150: the message is turned down and the handler returns
\* (or its exception is caught) before state.clear().
RangeRejected(in) ==
    \/ in.kind # "pair"
    \/ in.start > in.end
    \/ in.end > in.today
    \/ days_count(in.start, in.end) > MaxRangeDays

\* process_date_range: a rejected message leaves the FSM state as it is; an
\* accepted one clears it (line 133) and is answered with the confirmation
\* keyboard of its two dates, unless sending the answer raises.
process_date_range(f, in, answered) ==
    IF RangeRejected(in)
    THEN [f EXCEPT !.input = in, !.verdict = "rejected"]
    ELSE [f EXCEPT !.state = NULL, !.input = in, !.verdict = "accepted",
                   !.confirm = IF answered THEN << in.start, in.end >> ELSE << >>]

\* The button "date range": state.set_state(Form.waiting_for_date_range).
DateRangeMenu ==
    /\ fsm' = [NewFsm EXCEPT !.state = WaitingForDateRange]
    /\ UNCHANGED << storeVars, scenario, now, users_table, run, task, semaphore, floodsLeft, faultsLeft,
                    directLeft, active_tasks, handler >>

\* A message arrives while the chat is in the state waiting_for_date_range.
ProcessDateRange ==
    /\ fsm.state = WaitingForDateRange
    /\ \E in \in RangeInputs, answered \in BOOLEAN :
           fsm' = process_date_range(fsm, in, answered)
    /\ UNCHANGED << storeVars, scenario, now, users_table, run, task, semaphore, floodsLeft, faultsLeft,
                    directLeft, active_tasks, handler >>

\* The cancel button of the prompt: state.clear().
CancelAction ==
    /\ fsm.state = WaitingForDateRange
    /\ fsm' = NewFsm
    /\ UNCHANGED << storeVars, scenario, now, users_table, run, task, semaphore, floodsLeft, faultsLeft,
                    directLeft, active_tasks, handler >>

RangeInit ==
    /\ scenario = Scenario(<< >>, << >>, << >>, {}, 0, 0, 0)
    /\ active_tasks = {}
    /\ handler = [h \in HandlerIds |-> NewHandler]
    /\ fsm = NewFsm
    /\ StoreInit
    /\ now = 0
    /\ users_table = SetToBag(scenario.store)
    /\ run = [r \in Runs |-> NewRun]
    /\ task = [r \in Runs |-> [d \in DialogIds |-> NewTask]]
    /\ semaphore = [r \in Runs |-> 0]
    /\ floodsLeft = 0
    /\ faultsLeft = 0
    /\ directLeft = 0

RangeNext ==
    \/ DateRangeMenu
    \/ ProcessDateRange
    \/ CancelAction

RangeSpec == RangeInit /\ [][RangeNext]_vars

\* ------------------------------------------- insert_users, row by row
\* DatabaseManager.insert_users with the outcome of every row of users_data:
\* "ok" is a row SQLite executes (inserted, or ignored on a NOT NULL or UNIQUE
\* conflict), "error" a row whose execution raises an exception that is not an
\* IntegrityError (a value the driver cannot bind such as a pandas Timestamp, a
\* tuple of the wrong length, a locked or full database). With the schema of
\* init_database every constraint is covered by OR IGNORE, so no row raises
\* IntegrityError.
RowOutcomes == {"ok", "error"}

\* A rowcount that counts every row handed to executemany.
rowcount_attempted(before, after, batch) == Len(batch)

\* Line 300: cursor.rowcount after executemany, the rows the batch changed.
rowcount(before, after, batch) == BagCardinality(after) - BagCardinality(before)

\* cursor.executemany over one batch: the rows are executed in order; the first
\* row that raises ends the statement with the rows before it still in the
\* open transaction.
RECURSIVE executemany_rows(_, _, _)
executemany_rows(table, batch, outcomes) ==
    IF batch = << >> THEN [table |-> table, raised |-> FALSE]
    ELSE IF Head(outcomes) = "error" THEN [table |-> table, raised |-> TRUE]
    ELSE executemany_rows(InsertOrIgnore(table, Head(batch)), Tail(batch), Tail(outcomes))

\* Lines 287-304: the loop over the batches; an exception that is not an
\* IntegrityError leaves the loop.
RECURSIVE insert_batches(_, _, _, _, _, _)
insert_batches(table, users_data, outcomes, batch_size, i, inserted_count) ==
    IF i > Len(users_data)
    THEN [table |-> table, count |-> inserted_count, raised |-> FALSE]
    ELSE LET last == Min(i + batch_size - 1, Len(users_data))
             batch == SubSeq(users_data, i, last)
             res == executemany_rows(table, batch, SubSeq(outcomes, i, last))
         IN IF res.raised
            THEN [table |-> res.table, count |-> inserted_count, raised |-> TRUE]
            ELSE insert_batches(res.table, users_data, outcomes, batch_size, i + batch_size,
                                inserted_count + rowcount(table, res.table, batch))

\* Lines 277-311 with get_connection (55-68): the batches run in one unit of
\* work; when it ends without an exception the connection commits (commit is
\* whether conn.commit() succeeds) and inserted_count is returned; on any
\* exception the connection rolls back and insert_users returns 0.
insert_users_rows(table, users_data, outcomes, batch_size, commit) ==
    IF users_data = << >> THEN [table |-> table, count |-> 0]
    ELSE LET res == insert_batches(table, users_data, outcomes, batch_size, 1, 0)
         IN IF res.raised \/ ~commit
            THEN [table |-> table, count |-> 0]
            ELSE [table |-> res.table, count |-> res.count]

\* The rows and tables of the direct calls: two users in two groups at one
\* collection time, and a row without collected_at.
InsertRows ==
    {Row(u, 0, SecText(0), g, 0) : u \in {1, 2}, g \in {"A", "B"}} \cup {Row(1, 0, NullText, "A", 0)}

InsertTables == {EmptyBag, SetToBag({Row(1, 0, SecText(0), "A", 0)})}

InsertData == UNION {[1..n -> InsertRows] : n \in 0..MaxRows}

\* A caller hands users_data to insert_users with a batch size (1000 unless the
\* caller names another).
InsertUsersRowsCall ==
    /\ directLeft > 0
    /\ directLeft' = directLeft - 1
    /\ \E users_data \in InsertData, batch_size \in {1, 2, BatchSize}, commit \in BOOLEAN :
       \E outcomes \in [1..Len(users_data) -> RowOutcomes] :
           LET res == insert_users_rows(users_table, users_data, outcomes, batch_size, commit)
           IN /\ users_table' = res.table
              /\ insert_call' = [made |-> TRUE, before |-> users_table,
                                 users_data |-> users_data, outcomes |-> outcomes,
                                 batch_size |-> batch_size, commit |-> commit,
                                 count |-> res.count]
    /\ UNCHANGED << scenario, now, run, task, semaphore, floodsLeft, faultsLeft, handlerVars,
                    connection_pool, units, connections, legacy, all_users_xlsx >>

InsertInit ==
    /\ scenario = Scenario(<< >>, << >>, << >>, {}, 0, 0, 1)
    /\ active_tasks = {}
    /\ handler = [h \in HandlerIds |-> NewHandler]
    /\ fsm = NewFsm
    /\ StoreInit
    /\ now = 0
    /\ users_table \in InsertTables
    /\ run = [r \in Runs |-> NewRun]
    /\ task = [r \in Runs |-> [d \in DialogIds |-> NewTask]]
    /\ semaphore = [r \in Runs |-> 0]
    /\ floodsLeft = 0
    /\ faultsLeft = 0
    /\ directLeft = scenario.direct

InsertNext == InsertUsersRowsCall

InsertSpec == InsertInit /\ [][InsertNext]_vars

\* ---------------------------------------- the flat-file variant, src/bot.py
\* get_users_from_chats_enhanced of src/bot.py keeps the store in all_users.xlsx:
\* it reads the whole file, filters the harvested rows by User_id, concatenates
\* and rewrites the file. Only its store update (lines 456-513) is modelled, on
\* the rows a run has gathered.
LegacyRuns == 1..MaxLegacyRuns

LegacyRow(user_id, collected_at) == Row(user_id, 0, SecText(collected_at), "A", 1)

\* What gather hands to the store update: the merged rows of a run.
LegacyHarvests == SUBSET {LegacyRow(1, 1), LegacyRow(2, 1)}

\* The content of all_users.xlsx before the first run.
LegacyFiles == {{}, {LegacyRow(3, 0)}}

NewLegacy ==
    [pc |-> "ready", all_users |-> {}, before |-> {}, df_existing |-> {}, new_users |-> {},
     df_updated |-> {}, retry_count |-> 0, read_failed |-> FALSE, result |-> "none"]

\* Lines 463-471: pd.read_excel(base_file), or an empty frame when the file is
\* missing or the read raises.
read_existing(file, readable) == IF readable THEN file ELSE {}

\* Lines 473-478: the rows whose User_id is not in the frame that was read.
legacy_new_users(all_users, df_existing) ==
    {row \in all_users : row.user_id \notin {e.user_id : e \in df_existing}}

\* Line 482: pd.concat([df_existing, df_new]).
concat(df_existing, df_new) == df_existing \cup df_new

\* Lines 490-496: df_updated.to_excel(base_file) rewrites the whole file, or
\* raises and leaves it.
LegacySave(r, lg, saved) ==
    /\ all_users_xlsx' = IF saved THEN lg.df_updated ELSE all_users_xlsx
    /\ legacy' = [legacy EXCEPT ![r] =
           [lg EXCEPT !.pc = "done", !.result = IF saved THEN "db_updated" ELSE "db_error"]]

\* Lines 443-451: gather has returned and the results are merged.
LegacyGather(r) ==
    /\ legacy[r].pc = "ready"
    /\ \E all \in LegacyHarvests :
           legacy' = [legacy EXCEPT ![r] = [@ EXCEPT !.pc = "gathered", !.all_users = all]]
    /\ UNCHANGED << scenario, now, users_table, run, task, semaphore, floodsLeft, faultsLeft,
                    directLeft, handlerVars, insert_call, connection_pool, units,
                    connections, all_users_xlsx >>

\* Lines 456-488: the backup, the read of the file, the filter, the concat and
\* the sort (pd.to_datetime may raise: the generic except clause ends the run),
\* up to the second wait_for_unlock, which suspends the run when the file is
\* locked; otherwise the file is written at once.
LegacyStoreUpdate(r) ==
    /\ legacy[r].pc = "gathered"
    /\ IF legacy[r].all_users = {}
       THEN /\ legacy' = [legacy EXCEPT ![r] = [@ EXCEPT !.pc = "done", !.result = "no_users"]]
            /\ UNCHANGED all_users_xlsx
       ELSE \E readable \in BOOLEAN, sorted \in BOOLEAN, locked \in BOOLEAN, saved \in BOOLEAN :
            LET df_existing == read_existing(all_users_xlsx, readable)
                new == legacy_new_users(legacy[r].all_users, df_existing)
                lg == [legacy[r] EXCEPT !.before = all_users_xlsx, !.df_existing = df_existing,
                                        !.new_users = new, !.read_failed = ~readable,
                                        !.df_updated = concat(df_existing, new)]
            IN IF new = {}
               THEN /\ legacy' = [legacy EXCEPT ![r] =
                           [lg EXCEPT !.pc = "done", !.result = "no_new"]]
                    /\ UNCHANGED all_users_xlsx
               ELSE IF ~sorted
               THEN /\ legacy' = [legacy EXCEPT ![r] =
                           [lg EXCEPT !.pc = "done", !.result = "account_error"]]
                    /\ UNCHANGED all_users_xlsx
               ELSE IF locked
               THEN /\ legacy' = [legacy EXCEPT ![r] = [lg EXCEPT !.pc = "sleeping"]]
                    /\ UNCHANGED all_users_xlsx
               ELSE LegacySave(r, lg, saved)
    /\ UNCHANGED << scenario, now, users_table, run, task, semaphore, floodsLeft, faultsLeft,
                    directLeft, handlerVars, insert_call, connection_pool, units,
                    connections >>

\* wait_for_unlock, lines 132-140: asyncio.sleep(2) is over, retry_count grows,
\* and the loop tests the lock again; it ends when the file is free or after
\* max_retries, and the caller writes the file whatever it answered.
LegacyWake(r) ==
    /\ legacy[r].pc = "sleeping"
    /\ \E locked \in BOOLEAN, saved \in BOOLEAN :
           LET lg == [legacy[r] EXCEPT !.retry_count = @ + 1]
           IN IF locked /\ lg.retry_count < MaxRetries
              THEN /\ legacy' = [legacy EXCEPT ![r] = lg]
                   /\ UNCHANGED all_users_xlsx
              ELSE LegacySave(r, lg, saved /\ ~locked)
    /\ UNCHANGED << scenario, now, users_table, run, task, semaphore, floodsLeft, faultsLeft,
                    directLeft, handlerVars, insert_call, connection_pool, units,
                    connections >>

LegacyInit ==
    /\ scenario = Scenario(<< >>, << >>, << >>, {}, 0, 0, 0)
    /\ active_tasks = {}
    /\ handler = [h \in HandlerIds |-> NewHandler]
    /\ fsm = NewFsm
    /\ insert_call = NoInsertCall
    /\ connection_pool = << >>
    /\ units = << >>
    /\ connections = << >>
    /\ legacy = [r \in LegacyRuns |-> NewLegacy]
    /\ all_users_xlsx \in LegacyFiles
    /\ now = 0
    /\ users_table = SetToBag(scenario.store)
    /\ run = [r \in Runs |-> NewRun]
    /\ task = [r \in Runs |-> [d \in DialogIds |-> NewTask]]
    /\ semaphore = [r \in Runs |-> 0]
    /\ floodsLeft = 0
    /\ faultsLeft = 0
    /\ directLeft = 0

LegacyNext ==
    \/ \E r \in LegacyRuns : LegacyGather(r)
    \/ \E r \in LegacyRuns : LegacyStoreUpdate(r)
    \/ \E r \in LegacyRuns : LegacyWake(r)

LegacySpec == LegacyInit /\ [][LegacyNext]_vars

\* ------------------------------------------------ the connection pool
\* DatabaseManager keeps idle connections in _connection_pool, under a Lock and
\* with check_same_thread=False: the units of work of get_connection may come
\* from several threads and overlap. (The bot's own callers run one unit at a
\* time, which is the case of a single unit in progress.)
UnitIds == 1..MaxUnits

NewUnit == [pc |-> "idle", conn |-> 0, released |-> 0, closed |-> FALSE]

\* A return that appends whatever the size of the pool.
return_unbounded(pool, conn) == [pool |-> Append(pool, conn), closed |-> FALSE]

\* _return_to_pool, lines 30-37: the connection goes back to the pool while
\* the pool holds fewer than _pool_size connections; otherwise it is closed.
return_to_pool(pool, conn) ==
    IF Len(pool) < PoolSize
    THEN [pool |-> Append(pool, conn), closed |-> FALSE]
    ELSE [pool |-> pool, closed |-> TRUE]

\* _get_pool_connection, lines 21-28, at the head of get_connection (59): the
\* last idle connection is popped, or a connection is created; sqlite3.connect
\* and the PRAGMAs of _create_connection may raise, before the try block. The
\* units are numbered in the order in which they take their connection.
TakeConnection(u) ==
    /\ units[u].pc = "idle"
    /\ u > 1 => units[u - 1].pc # "idle"
    /\ IF connection_pool # << >>
       THEN /\ units' = [units EXCEPT ![u] =
                   [@ EXCEPT !.pc = "work", !.conn = connection_pool[Len(connection_pool)]]]
            /\ connection_pool' = SubSeq(connection_pool, 1, Len(connection_pool) - 1)
            /\ UNCHANGED connections
       ELSE \E created \in BOOLEAN :
            IF created
            THEN /\ connections' = Append(connections, "open")
                 /\ units' = [units EXCEPT ![u] =
                        [@ EXCEPT !.pc = "work", !.conn = Len(connections) + 1]]
                 /\ UNCHANGED connection_pool
            ELSE /\ units' = [units EXCEPT ![u] = [@ EXCEPT !.pc = "failed"]]
                 /\ UNCHANGED << connection_pool, connections >>
    /\ UNCHANGED << scenario, now, users_table, run, task, semaphore, floodsLeft, faultsLeft,
                    directLeft, handlerVars, insert_call, legacy, all_users_xlsx >>

\* get_connection, lines 60-68: the body of the with block ends or raises, the
\* connection commits or rolls back (either may raise), and the finally clause
\* hands the connection to _return_to_pool; the unit no longer refers to it.
ReturnConnection(u) ==
    /\ units[u].pc = "work"
    /\ \E body_raised \in BOOLEAN, commit_raised \in BOOLEAN :
           LET res == return_to_pool(connection_pool, units[u].conn)
           IN /\ connection_pool' = res.pool
              /\ connections' = IF res.closed
                                THEN [connections EXCEPT ![units[u].conn] = "closed"]
                                ELSE connections
              /\ units' = [units EXCEPT ![u] =
                     [@ EXCEPT !.pc = "done", !.conn = 0, !.released = @ + 1,
                               !.closed = res.closed]]
    /\ UNCHANGED << scenario, now, users_table, run, task, semaphore, floodsLeft, faultsLeft,
                    directLeft, handlerVars, insert_call, legacy, all_users_xlsx >>

\* cleanup_pool, lines 627-637: every idle connection is popped and closed.
CleanupPool ==
    /\ connection_pool # << >>
    /\ connection_pool' = << >>
    /\ connections' = [c \in DOMAIN connections |->
                          IF c \in Range(connection_pool) THEN "closed" ELSE connections[c]]
    /\ UNCHANGED << scenario, now, users_table, run, task, semaphore, floodsLeft, faultsLeft,
                    directLeft, handlerVars, insert_call, units, legacy, all_users_xlsx >>

PoolInit ==
    /\ scenario = Scenario(<< >>, << >>, << >>, {}, 0, 0, 0)
    /\ active_tasks = {}
    /\ handler = [h \in HandlerIds |-> NewHandler]
    /\ fsm = NewFsm
    /\ insert_call = NoInsertCall
    /\ connection_pool = << >>
    /\ units = [u \in UnitIds |-> NewUnit]
    /\ connections = << >>
    /\ legacy = << >>
    /\ all_users_xlsx = {}
    /\ now = 0
    /\ users_table = SetToBag(scenario.store)
    /\ run = [r \in Runs |-> NewRun]
    /\ task = [r \in Runs |-> [d \in DialogIds |-> NewTask]]
    /\ semaphore = [r \in Runs |-> 0]
    /\ floodsLeft = 0
    /\ faultsLeft = 0
    /\ directLeft = 0

PoolNext ==
    \/ \E u \in UnitIds : TakeConnection(u)
    \/ \E u \in UnitIds : ReturnConnection(u)
    \/ CleanupPool

PoolSpec == PoolInit /\ [][PoolNext]_vars

\* ------------------------------------------------------------------ claims
\* What a complete harvest of dialog d for day date holds, read off the history:
\* the senders whose newest message of the day is well-formed.
OnDay(d, date) == {m \in Range(History(d)) : m.day = date /\ m.sender # NoId}

Newest(d, date, sender) ==
    CHOOSE m \in OnDay(d, date) :
        m.sender = sender /\ \A o \in OnDay(d, date) : o.sender = sender => o.id <= m.id

HarvestedSenders(d, date) ==
    {m.sender : m \in {o \in OnDay(d, date) : ~Newest(d, date, o.sender).bad}}

\* The boundaries of day date in a history: the least and the greatest id of the
\* messages of that day, (0, 0) without any.
Boundaries(history, date) ==
    LET ids == {m.id : m \in {o \in Range(history) : o.day = date}}
    IN IF ids = {} THEN << 0, 0 >>
       ELSE << CHOOSE i \in ids : \A j \in ids : i <= j,
               CHOOSE i \in ids : \A j \in ids : j <= i >>

SnapshotsOf(users, sender) == {u \in users : u.user_id = sender}

\* The call ran the persistence step (lines 249-290).
ReachedPersistence(r) ==
    Kinds(run[r].result_message) \cap {"no_users", "no_new", "db_updated", "db_error"} # {}

\* r1 ran to its end, without any fault, before r2 started, for the same
\* account and date.
CleanRerun(r1, r2) ==
    /\ r1 # r2
    /\ r1 \in run[r2].after
    /\ Calls[r1] = Calls[r2]
    /\ run[r1].pc = "returned"
    /\ run[r1].faults = 0
    /\ \A d \in DialogIds : ~task[r1][d].fault

\* C1: a second collect for the same account and date, run after a first that
\* completed without any fault and with the remote unchanged, inserts no row.
C1_RerunInsertsNothing ==
    \A r1, r2 \in Runs :
        (CleanRerun(r1, r2) /\ Ended(r2)) => run[r2].inserted = {}

\* C2: the users table never holds two rows with the same
\* (user_id, collected_at, source_group).
C2_UniqueTriple ==
    \A a, b \in StoredRows(users_table) :
        /\ CopiesIn(a, users_table) = 1
        /\ (a.user_id = b.user_id /\ a.collected_at = b.collected_at
               /\ a.source_group = b.source_group) => a = b

\* C3: a harvest that walked its range to the end returns exactly one snapshot
\* for each sender with at least one message of the target date in the range.
C3_OneSnapshotPerSender ==
    \A r \in Runs, d \in DialogIds :
        (task[r][d].pc = "done" /\ task[r][d].pos > 0 /\ ~task[r][d].fault) =>
            \A m \in Range(Walk(r, d)) :
                (m.day = Calls[r].date /\ m.sender # NoId) =>
                    Cardinality(SnapshotsOf(task[r][d].users, m.sender)) = 1

\* C4: the merged set is as large as the per-group sets together, and when the
\* store is read and written without error and held none of the merged user ids,
\* every merged snapshot is inserted.
C4_AllMergedInserted ==
    \A r \in Runs :
        (run[r].pc = "returned" /\ "db_updated" \in Kinds(run[r].result_message)
            /\ run[r].faults = 0 /\ run[r].new_users = run[r].all_users) =>
            /\ run[r].inserted = run[r].all_users
            /\ \A d1, d2 \in run[r].filtered :
                   d1 # d2 => task[r][d1].users \cap task[r][d2].users = {}

\* C5: at most 3 harvests of one call are in progress at any time.
C5_AtMostThreeHarvests ==
    \A r \in Runs : Cardinality(Running(r)) <= SemaphoreLimit

\* Three harvests run while a fourth task waits for the semaphore.
C5_Witness ==
    \E r \in Runs :
        /\ Cardinality(Running(r)) = SemaphoreLimit
        /\ \E d \in run[r].filtered : task[r][d].pc = "waiting"

C7_DisconnectBeforeReturn ==
    \A r \in Runs :
        /\ (run[r].pc = "returned" /\ run[r].client) => run[r].disconnects = 1
        /\ run[r].pc = "raised" => ~run[r].client

\* Early returns and handled exceptions inside the try block, and the full run,
\* all returned after the disconnect.
C7_Witness ==
    \E r \in Runs :
        /\ run[r].pc = "returned" /\ run[r].client /\ run[r].disconnects = 1
        /\ "not_authorized" \in Kinds(run[r].result_message)

C9_NeverRaises ==
    \A r \in Runs : run[r].pc # "raised"

\* C10: the rows of a reply file are exactly the rows the run inserted.
C10_FileHoldsInsertedRows ==
    \A r \in Runs :
        (run[r].pc = "returned" /\ run[r].file_path) => run[r].file_rows = run[r].inserted

\* C11: a run whose store write failed committed no row of it, reports zero added
\* records, and returns neither a file nor a file line for the lost records.
C11_FailedWriteReported ==
    \A r \in Runs :
        (run[r].pc = "returned" /\ run[r].write = "error") =>
            /\ run[r].inserted = {}
            /\ \A i \in 1..Len(run[r].result_message) :
                   run[r].result_message[i].kind = "db_updated" => run[r].result_message[i].n = 0
            /\ ~run[r].file_path
            /\ "file_created" \notin Kinds(run[r].result_message)

\* C12: a run that found its account not authorized, or in need of a 2FA
\* password, ends with that failure line, without any store call and without a
\* file; and the handler's loop serves every configured account whatever the
\* earlier accounts' results: when the loop is over, the call of every account
\* whose own progress edit did not raise has been made and has ended.
C12_UnauthorizedAccountIsolated ==
    /\ \A r \in Runs :
           (run[r].pc \in {"finally", "returned"}
               /\ Kinds(run[r].result_message) \cap {"not_authorized", "2fa_required"} # {}) =>
               /\ run[r].result_message[Len(run[r].result_message)].kind
                      \in {"not_authorized", "2fa_required"}
               /\ run[r].events = << >> /\ run[r].inserted = {} /\ ~run[r].file_path
    /\ \A h \in HandlerIds :
           /\ handler[h].pc \in {"edit", "collect"} =>
                  /\ handler[h].i \in AccountIds
                  /\ \A j \in 1..(handler[h].i - 1) :
                         j \notin handler[h].skipped => run[RunOf(h, j)].pc = "consumed"
           /\ handler[h].pc = "report" =>
                  \A j \in AccountIds :
                      j \notin handler[h].skipped => run[RunOf(h, j)].pc = "consumed"

\* The first account was not authorized, and the call for the second account has
\* run and written to the store.
C12_Witness ==
    \E h \in HandlerIds :
        /\ handler[h].pc = "collect" /\ handler[h].i = 2
        /\ << 1, "not_authorized" >> \in handler[h].failed
        /\ run[RunOf(h, 2)].pc = "returned"
        /\ run[RunOf(h, 2)].inserted # {}

\* C13: per requesting chat at most one collection task holds the flag, the flag
\* is set exactly while a task of the chat is active, and a handler that was
\* rejected has made no call of get_users_from_chats_enhanced.
C13_OneTaskPerRequester ==
    /\ \A c \in Requesters :
           LET tasks == {h \in HandlerIds : Active(h) /\ handler[h].chat = c}
           IN /\ Cardinality(tasks) <= 1
              /\ tasks # {} <=> c \in active_tasks
    /\ \A h \in HandlerIds :
           handler[h].pc \in {"rejecting", "rejected"} =>
               \A j \in AccountIds : run[RunOf(h, j)].pc = "ready"

\* A request was rejected while the requester's task awaits its call, and the
\* flag is still set.
C13_Witness ==
    \E h1, h2 \in HandlerIds :
        /\ handler[h1].pc = "collect" /\ run[RunOf(h1, 1)].pc = "authorized"
        /\ handler[h2].pc = "rejected"
        /\ Cardinality(Requesters) = 1
        /\ handler[h1].chat \in active_tasks

\* C14: once the dialogs are listed, the groups kept for harvesting are the
\* groups that are not archived and whose member count is absent, null or greater
\* than 10, and the run goes on to report them.
C14_UnknownCountKept ==
    \A r \in Runs :
        (run[r].listed /\ run[r].pc \in {"gather", "finally", "returned"}) =>
            /\ "found_groups" \in Kinds(run[r].result_message)
            /\ run[r].filtered =
                   {d \in DialogIds :
                       /\ DialogOf(d).is_group /\ ~DialogOf(d).archived
                       /\ \/ ~DialogOf(d).hasCount
                          \/ DialogOf(d).count = -1
                          \/ DialogOf(d).count > MinParticipants}

\* The messages the walk of dialog d has handed to the loop body so far.
Examined(r, d) == {Walk(r, d)[k] : k \in 1..(task[r][d].pos - 1)}

WalkCompleted(r, d) ==
    task[r][d].pc = "done" /\ task[r][d].pos > 0 /\ ~task[r][d].fault

C16_EmptyDateNotWalked ==
    \A r \in Runs, d \in DialogIds :
        (\A m \in Range(History(d)) : m.day # Calls[r].date) =>
            /\ task[r][d].pc \notin {"probe2", "iter"}
            /\ task[r][d].min_id = 0 /\ task[r][d].max_id = 0
            /\ task[r][d].pos = 0
            /\ task[r][d].users = {}

\* The harvest of a chat with messages, none of them of the target date, has
\* returned without an exception.
C16_Witness ==
    \E r \in Runs, d \in DialogIds :
        /\ task[r][d].pc = "done" /\ ~task[r][d].fault
        /\ History(d) # << >>
        /\ \A m \in Range(History(d)) : m.day # Calls[r].date
        /\ run[r].pc = "returned" /\ "no_users" \in Kinds(run[r].result_message)

\* C17: in every run, each insert into the store comes after the run's backup
\* step.
C17_BackupBeforeInsert ==
    \A r \in Runs :
        \A j \in 1..Len(run[r].events) :
            run[r].events[j] = "insert" =>
                \E i \in 1..(j - 1) : run[r].events[i] = "backup"

\* A run has inserted rows after its backup.
C17_Witness ==
    \E r \in Runs :
        /\ run[r].inserted # {}
        /\ Len(run[r].events) >= 3
        /\ run[r].events[1] = "backup" /\ run[r].events[3] = "insert"

\* C18: a date-range message is accepted exactly when it holds two dates with
\* start <= end, end not after today and at most 30 days, both ends counted; a
\* rejected message leaves the chat waiting for a date range with no
\* confirmation offered, an accepted one clears the state; neither starts a
\* collection.
C18_RangeValidated ==
    fsm.verdict # "none" =>
        /\ fsm.verdict = "accepted" <=>
               /\ fsm.input.kind = "pair"
               /\ fsm.input.start <= fsm.input.end
               /\ fsm.input.end <= fsm.input.today
               /\ fsm.input.end - fsm.input.start + 1 <= MaxRangeDays
        /\ fsm.verdict = "rejected" => fsm.state = WaitingForDateRange /\ fsm.confirm = << >>
        /\ fsm.verdict = "accepted" => fsm.state = NULL
        /\ active_tasks = {}
        /\ \A h \in HandlerIds : handler[h].pc = "idle"

\* A range of exactly 30 days ending today was accepted and its confirmation
\* offered.
C18_Witness ==
    /\ fsm.verdict = "accepted" /\ fsm.state = NULL
    /\ fsm.input.end = fsm.input.today
    /\ fsm.input.end - fsm.input.start + 1 = MaxRangeDays
    /\ fsm.confirm = << fsm.input.start, fsm.input.end >>

\* C19: whenever get_users_from_chats_enhanced has returned, its list of status
\* lines is not empty.
C19_SummaryNeverEmpty ==
    \A r \in Runs : run[r].pc = "returned" => Len(run[r].result_message) >= 1

\* A call that failed altogether (credentials missing, no client created)
\* returned its one line.
C19_Witness ==
    \E r \in Runs :
        /\ run[r].pc = "returned" /\ ~run[r].client
        /\ Kinds(run[r].result_message) = {"missing_credentials"}

\* C20: when two runs, the second after the first and both without any fault,
\* observed the same user in the same group at two different collection times,
\* the store holds both snapshots.
C20_TwoRunsTwoRows ==
    \A r1, r2 \in Runs :
        (CleanRerun(r1, r2) /\ run[r2].pc = "returned" /\ run[r2].faults = 0
            /\ \A d \in DialogIds : ~task[r2][d].fault) =>
            \A u1 \in run[r1].all_users, u2 \in run[r2].all_users :
                (u1.user_id = u2.user_id /\ u1.group_id = u2.group_id
                    /\ u1.collected_at # u2.collected_at) =>
                    {u1, u2} \subseteq StoredRows(users_table)

\* C21: a group whose message iteration ended with an exception contributes no
\* snapshot: its task returns no user and, once the results are merged, no
\* row of all_users comes from that group.
C21_FailedGroupContributesNothing ==
    \A r \in Runs : \A d \in run[r].filtered :
        (task[r][d].pc = "done" /\ task[r][d].fault /\ task[r][d].pos >= 1) =>
            /\ task[r][d].users = {}
            /\ ReachedPersistence(r) => \A u \in run[r].all_users : u.group_id # d

\* C22: a rate-limit signal of get_dialogs or of the message walk is waited out
\* and the call retried: the run has no failure line for it, and the group's
\* walk is completed with the signaled durations slept.
C22_FloodWaitNeverFails ==
    \A r \in Runs :
        /\ run[r].floods # << >> => Kinds(run[r].result_message) \cap FailureKinds = {}
        /\ \A d \in run[r].filtered :
               (task[r][d].walk_floods # << >> /\ task[r][d].pc = "done") =>
                   ~task[r][d].fault /\ task[r][d].pos > Len(Walk(r, d))

\* C23: when the walk of a group has ended without an exception, every sender
\* with a well-formed message of the target date in the range has a snapshot,
\* also a sender another of whose messages failed to build.
C23_BadMessageSkippedAlone ==
    \A r \in Runs, d \in DialogIds :
        WalkCompleted(r, d) =>
            \A m \in OnDay(d, Calls[r].date) :
                ~m.bad => SnapshotsOf(task[r][d].users, m.sender) # {}

\* C24: after an insert_users call whose commit succeeded, every row of
\* users_data whose own insertion did not fail is stored (itself, or the stored
\* row with its key), whatever happened to the other rows of the call.
C24_FailedRowSkippedAlone ==
    LET executable == {j \in 1..Len(insert_call.users_data) :
                          /\ insert_call.outcomes[j] = "ok"
                          /\ insert_call.users_data[j].user_id # NoId
                          /\ insert_call.users_data[j].collected_at # NullText}
    IN (insert_call.made /\ insert_call.commit) =>
           \A j \in executable : \E s \in StoredRows(users_table) :
               /\ s.user_id = insert_call.users_data[j].user_id
               /\ s.collected_at = insert_call.users_data[j].collected_at
               /\ s.source_group = insert_call.users_data[j].source_group

\* C29: the value insert_users returns is the number of rows the call added to
\* the users table, ignored rows not counted; when a row raised, or the commit
\* failed, the table is what it was before the call and the value is 0.
C29_CountIsRowsAdded ==
    insert_call.made =>
        /\ insert_call.count = BagCardinality(users_table) - BagCardinality(insert_call.before)
        /\ insert_call.count = Cardinality(AddedRows(insert_call.before, users_table))
        /\ ((\E i \in 1..Len(insert_call.outcomes) : insert_call.outcomes[i] = "error")
               \/ ~insert_call.commit) =>
               users_table = insert_call.before /\ insert_call.count = 0

\* A call of three rows in two batches: one row is ignored as a duplicate of a
\* stored row, two are added, and 2 is returned.
C29_Witness ==
    /\ insert_call.made /\ insert_call.commit
    /\ Len(insert_call.users_data) = 3 /\ insert_call.batch_size = 2
    /\ \A i \in 1..3 : insert_call.outcomes[i] = "ok"
    /\ \E i \in 1..3 : UniqueConflict(insert_call.before, insert_call.users_data[i])
    /\ insert_call.count = 2

\* C25: while the locator probes of one chat are rate-limited without end, the
\* harvest of every other filtered group of the account, once the groups are
\* gathered, eventually starts and completes.
C25_OthersComplete ==
    \A d \in LiveChats :
        (run[1].pc = "gather" /\ d \in run[1].filtered /\ d # scenario.blocked)
            ~> (task[1][d].pc = "done")

\* The rate-limited chat still holds its slot after MaxFlood signals, and the
\* three other groups are done.
C25_Witness ==
    /\ scenario.blocked = 1 /\ run[1].pc = "gather"
    /\ task[1][1].pc = "probe1" /\ Len(task[1][1].floods) = MaxFlood
    /\ \A d \in run[1].filtered \ {1} : task[1][d].pc = "done"
    /\ Cardinality(run[1].filtered) > SemaphoreLimit

\* C26: in the flat-file variant, when a run has ended its store update, every
\* row the file held when the update began is still in the file.
C26_FlatFileKeepsRows ==
    \A r \in LegacyRuns :
        (legacy[r].pc = "done" /\ legacy[r].result # "none") =>
            legacy[r].before \subseteq all_users_xlsx

\* C27: of two collect calls of one process whose reads of the existing ids
\* succeeded, however their steps interleave, no user_id has rows inserted by
\* both: the read, the filter and the insert of a run are one step of the
\* event loop.
C27_RunsInsertDisjointIds ==
    \A r1, r2 \in Runs :
        (r1 # r2 /\ run[r1].read = "ok" /\ run[r2].read = "ok") =>
            {u.user_id : u \in run[r1].inserted} \cap {u.user_id : u \in run[r2].inserted} = {}

\* Two calls that ran at the same time (neither had ended when the other
\* began) harvested the same user: one inserted it, the other found nothing new.
C27_Witness ==
    \E r1, r2 \in Runs :
        /\ r1 # r2 /\ r1 \notin run[r2].after /\ r2 \notin run[r1].after
        /\ run[r1].pc = "returned" /\ run[r2].pc = "returned"
        /\ run[r1].read = "ok" /\ run[r2].read = "ok"
        /\ run[r1].inserted # {}
        /\ {u.user_id : u \in run[r1].inserted} \subseteq {u.user_id : u \in run[r2].all_users}
        /\ "no_new" \in Kinds(run[r2].result_message)

\* C28: in every step, a task that ends (after its report, or through an
\* exception of any of its sends) leaves the flag of its chat removed; a request
\* that is rejected leaves active_tasks as it was; and a request of a chat
\* without an active task is accepted and sets the flag.
C28_FlagRemovedAtEnd ==
    [][\A h \in HandlerIds :
          /\ (Active(h) /\ handler'[h].pc \in {"idle", "ended", "rejecting", "rejected"}) =>
                 handler[h].chat \notin active_tasks'
          /\ (handler[h].pc = "check" /\ handler'[h].pc = "rejecting") =>
                 active_tasks' = active_tasks
          /\ (handler[h].pc = "check" /\ handler'[h].pc # "check"
                  /\ ~\E o \in HandlerIds : Active(o) /\ handler[o].chat = handler[h].chat) =>
                 (handler'[h].pc = "starting" /\ handler[h].chat \in active_tasks')]_vars

\* The first task of the only requester has ended, and the requester's next
\* request was accepted and runs.
C28_Witness ==
    \E h1, h2 \in HandlerIds :
        /\ h1 < h2 /\ Cardinality(Requesters) = 1
        /\ handler[h1].pc = "ended"
        /\ handler[h2].pc = "collect" /\ handler[h2].chat \in active_tasks
        /\ \A o \in HandlerIds : handler[o].pc # "rejected"

\* C30: the idle pool holds at most _pool_size connections, each once; no
\* connection is in the pool and checked out, no two units of work hold the
\* same connection; every connection is in the pool or checked out while it is
\* open and in neither once closed, and a unit of work that has ended has
\* handed its connection back exactly once.
C30_PoolBoundedAndExclusive ==
    LET checked_out == {units[u].conn : u \in {v \in DOMAIN units : units[v].pc = "work"}}
    IN /\ Len(connection_pool) <= PoolSize
       /\ \A i, j \in 1..Len(connection_pool) :
              connection_pool[i] = connection_pool[j] => i = j
       /\ Range(connection_pool) \cap checked_out = {}
       /\ \A u, v \in DOMAIN units :
              (units[u].pc = "work" /\ units[v].pc = "work" /\ units[u].conn = units[v].conn)
                  => u = v
       /\ \A c \in DOMAIN connections :
              (connections[c] = "open") <=> (c \in Range(connection_pool) \cup checked_out)
       /\ \A u \in DOMAIN units :
              units[u].released = IF units[u].pc = "done" THEN 1 ELSE 0

\* Six units of work overlapped: five connections are idle in the pool and
\* the sixth was closed on its return.
C30_Witness ==
    /\ Len(connection_pool) = PoolSize
    /\ \E u \in DOMAIN units : units[u].pc = "done" /\ units[u].closed
    /\ \A u \in DOMAIN units : units[u].pc = "done"

====
